---------------------------- MODULE Spec2Model ----------------------------
(***************************************************************************)
(* A model of the HTTP load tester (app/load_tester.py,                    *)
(* app/load_test_stats.py): the statistics aggregator, the retrying        *)
(* request coroutine, the pacing loop of generate_load, run_test and the   *)
(* binary search of find_breaking_point.                                   *)
(*                                                                         *)
(* Time is counted in units of the clock's resolution, 1/hz second: every  *)
(* clock reading, and the cursor next_request_time, which is a double at   *)
(* the magnitude of time.time(), is a whole number of units (2^-22 second  *)
(* for the doubles between 2^30 and 2^31), and `+= 1 / qps` rounds to the   *)
(* nearest unit.  Hz is a resolution at which the rates 1..MaxQps are      *)
(* exact; the pacer is also run at the finer resolution PacerHz, at which  *)
(* not every rate is.  Rational results (error_rate, mean, median) are kept as      *)
(* records [num, den] and compared by cross-multiplication.                *)
(* Classification keys are the strings of the code, written as sequences   *)
(* of one-character strings so that startswith can be computed.            *)
(***************************************************************************)
EXTENDS Integers, Sequences, FiniteSets, TLC

(***************************************************************************)
(* Bounds of the model.                                                    *)
(***************************************************************************)
MaxQps == 2             \* rates of the load runs: 1..MaxQps
MaxDuration == 1        \* durations of the load runs, in seconds
MaxRetries == 2         \* retry budgets of the load runs
MaxOverrun == 1         \* clock units a response may take past the window's end
MaxSearchQps == 100     \* max_qps of the searches over a synthetic run_test
MaxRequestRetries == 3  \* retry budgets of a make_request call on its own
MaxSamples == 3         \* samples added to a LoadTestStats on its own
MaxLatencyValue == 2    \* latencies of those samples
MaxCalculations == 2    \* calculate_stats calls in a row on such a LoadTestStats
MaxRuns == 2            \* run_test calls a client makes on one HTTPLoadTester
MaxPacerQps == 3        \* rates of the runs at the resolution PacerHz
PacerClockBits == 3     \* that resolution: 2^-PacerClockBits second

(***************************************************************************)
(* Arithmetic helpers.                                                     *)
(***************************************************************************)
RECURSIVE Pow2(_)
Pow2(n) == IF n = 0 THEN 1 ELSE 2 * Pow2(n - 1)

RECURSIVE Gcd(_, _)
Gcd(a, b) == IF b = 0 THEN a ELSE Gcd(b, a % b)

RECURSIVE LcmUpTo(_)
LcmUpTo(n) == IF n <= 1 THEN 1 ELSE (LcmUpTo(n - 1) * n) \div Gcd(LcmUpTo(n - 1), n)

\* clock units per second: 1/qps second is Hz \div qps units for every qps in 1..MaxQps
Hz == LcmUpTo(MaxQps)

\* a binary resolution of the clock at which 1/qps is not a whole number of
\* units for every rate
PacerHz == Pow2(PacerClockBits)

Rat(n, d) == [num |-> n, den |-> d]
RatLeq(a, b) == a.num * b.den <= b.num * a.den
RatEq(a, b) == a.num * b.den = b.num * a.den

RECURSIVE SumSeq(_)
SumSeq(s) == IF s = <<>> THEN 0 ELSE Head(s) + SumSeq(Tail(s))

RECURSIVE MinSeq(_)
MinSeq(s) == IF Len(s) = 1 THEN s[1]
             ELSE LET m == MinSeq(Tail(s)) IN IF s[1] <= m THEN s[1] ELSE m

RECURSIVE MaxSeq(_)
MaxSeq(s) == IF Len(s) = 1 THEN s[1]
             ELSE LET m == MaxSeq(Tail(s)) IN IF s[1] >= m THEN s[1] ELSE m

(***************************************************************************)
(* Classification keys.                                                    *)
(***************************************************************************)
DigitChar(d) == <<"0", "1", "2", "3", "4", "5", "6", "7", "8", "9">>[d + 1]

\* str(response.status)
RECURSIVE Str(_)
Str(n) == IF n < 10 THEN <<DigitChar(n)>> ELSE Str(n \div 10) \o <<DigitChar(n % 10)>>

ErrorKey == <<"e", "r", "r", "o", "r">>

StartsWith(s, c) == Len(s) >= 1 /\ s[1] = c

\* mutant: the 5xx test is left out
IsErrorKeyNo5(status) == StartsWith(status, "4") \/ status = ErrorKey

\* the test of calculate_stats that makes a bucket count as errors
IsErrorKey(status) == StartsWith(status, "4") \/ StartsWith(status, "5") \/ status = ErrorKey

(***************************************************************************)
(* LoadTestStats.                                                          *)
(***************************************************************************)
Sentinel == Rat(-1, 1)

\* LoadTestStats(): the fields __init__ sets (error_set is not among them)
NewStats == [results |-> <<>>,
             total_requests |-> 0,
             total_errors |-> 0,
             error_rate |-> Rat(0, 1),
             status_distribution |-> <<>>,
             mean_latency |-> Sentinel,
             median_latency |-> Sentinel,
             min_latency |-> Sentinel,
             max_latency |-> Sentinel]

HasErrorSet(st) == "error_set" \in DOMAIN st

\* results[status].append(latency) on the defaultdict(list)
AddResult(st, status, latency) ==
    [st EXCEPT !.results =
        IF status \in DOMAIN st.results
        THEN [st.results EXCEPT ![status] = Append(@, latency)]
        ELSE (status :> <<latency>>) @@ st.results]

\* the buckets of results, in some order (dict order; no derived field depends on it)
RECURSIVE KeySeq(_)
KeySeq(S) == IF S = {} THEN <<>>
             ELSE LET k == CHOOSE x \in S : TRUE IN <<k>> \o KeySeq(S \ {k})

RECURSIVE AllLatencies(_, _)
AllLatencies(res, keys) ==
    IF keys = <<>> THEN <<>> ELSE res[Head(keys)] \o AllLatencies(res, Tail(keys))

RECURSIVE CountErrors(_, _)
CountErrors(res, keys) ==
    IF keys = <<>> THEN 0
    ELSE (IF IsErrorKey(Head(keys)) THEN Len(res[Head(keys)]) ELSE 0)
         + CountErrors(res, Tail(keys))

\* statistics.mean
Mean(s) == Rat(SumSeq(s), Len(s))

\* statistics.median: the middle value, or the mean of the two middle values
Median(s) ==
    LET srt == SortSeq(s, LAMBDA a, b : a < b)
        n == Len(s)
    IN IF n % 2 = 1 THEN Rat(srt[(n + 1) \div 2], 1)
       ELSE Rat(srt[n \div 2] + srt[n \div 2 + 1], 2)

ErrorRate(total_errors, total_requests) ==
    IF total_requests > 0 THEN Rat(total_errors, total_requests) ELSE Rat(0, 1)

\* mutant: total_errors is not reset before the buckets are counted
CalculateStatsNoReset(st) ==
    LET keys == KeySeq(DOMAIN st.results)
        all_latencies == AllLatencies(st.results, keys)
        total_errors == st.total_errors + CountErrors(st.results, keys)
        total_requests == Len(all_latencies)
        nonempty == all_latencies # <<>>
    IN [st EXCEPT
          !.total_errors = total_errors,
          !.total_requests = total_requests,
          !.error_rate = ErrorRate(total_errors, total_requests),
          !.status_distribution = [k \in DOMAIN st.results |-> Len(st.results[k])],
          !.mean_latency = IF nonempty THEN Mean(all_latencies) ELSE @,
          !.median_latency = IF nonempty THEN Median(all_latencies) ELSE @,
          !.min_latency = IF nonempty THEN Rat(MinSeq(all_latencies), 1) ELSE @,
          !.max_latency = IF nonempty THEN Rat(MaxSeq(all_latencies), 1) ELSE @]

\* LoadTestStats.calculate_stats
CalculateStats(st) ==
    LET keys == KeySeq(DOMAIN st.results)
        all_latencies == AllLatencies(st.results, keys)
        total_errors == CountErrors(st.results, keys)
        total_requests == Len(all_latencies)
        nonempty == all_latencies # <<>>
    IN [st EXCEPT
          !.total_errors = total_errors,
          !.total_requests = total_requests,
          !.error_rate = ErrorRate(total_errors, total_requests),
          !.status_distribution = [k \in DOMAIN st.results |-> Len(st.results[k])],
          !.mean_latency = IF nonempty THEN Mean(all_latencies) ELSE @,
          !.median_latency = IF nonempty THEN Median(all_latencies) ELSE @,
          !.min_latency = IF nonempty THEN Rat(MinSeq(all_latencies), 1) ELSE @,
          !.max_latency = IF nonempty THEN Rat(MaxSeq(all_latencies), 1) ELSE @]


(***************************************************************************)
(* State.                                                                  *)
(***************************************************************************)
VARIABLES
    self_qps,           \* HTTPLoadTester.qps (None when unset)
    retries,            \* HTTPLoadTester.retries
    args,               \* the parsed arguments run() reads
    load_test_stats,    \* HTTPLoadTester.load_test_stats
    finalized,          \* history: calculate_stats has run since the last sample
    calc_calls,         \* history: calculate_stats calls since the last sample
    session,            \* the aiohttp.ClientSession of generate_load
    pc,                 \* position of the main coroutine
    caller,             \* where the current run_test call returns to
    exc,                \* the exception propagating in the main coroutine
    qps,                \* generate_load: qps
    start_time,         \* generate_load: start_time
    end_time,           \* generate_load: end_time
    next_request_time,  \* generate_load: next_request_time
    awaited,            \* the tasks handed to asyncio.gather
    tasks,              \* the make_request tasks created so far
    low, high, best_qps, mid,   \* find_breaking_point: search state
    now,                \* the clock (time.time, time.perf_counter), read from
                        \* the start of the current run_test call
    run_calls,          \* history: the run_test calls made, in order
    stats_run,          \* history: the run_test call that created load_test_stats
    launched,           \* history: requests launched by the current generate_load
    printed,            \* history: what each print_results call printed
    verdicts,           \* history: the rates the search tested, with its decision
    threshold,          \* the synthetic run_test: largest acceptable rate (or None)
    hz                  \* clock units per second

vars == <<self_qps, retries, args, load_test_stats, finalized, session, pc, caller, exc,
          qps, start_time, end_time, next_request_time,
          awaited, tasks, low, high, best_qps, mid, now, run_calls, stats_run, launched, printed, threshold,
          calc_calls, verdicts, hz>>

configVars == <<self_qps, retries, args, threshold, hz>>
statsVars == <<load_test_stats, finalized, calc_calls>>
pacerVars == <<qps, start_time, end_time, next_request_time, awaited, launched>>
searchVars == <<low, high, best_qps, mid, verdicts>>

\* Optional[int]: None
None == -1

\* Python's `a or b` on Optional[int]
Or(a, b) == IF a = None \/ a = 0 THEN b ELSE a

\* the status codes the transport answers with
Statuses == {200, 503}

NoExc == "none"

(***************************************************************************)
(* make_request: one task per launched request.                            *)
(***************************************************************************)
\* asyncio.create_task(self.make_request(session)): the coroutine has not run yet
NewTask(run) == [pc |-> "new", attempt |-> 0, start |-> 0, wake |-> 0,
                 latency |-> 0, status |-> 0, attempts |-> 0, failures |-> 0,
                 waits |-> <<>>, run |-> run, raised |-> NoExc]

\* the coroutine has ended (returned, or raised e): its clock readings are gone
Finished(t, e) == [t EXCEPT !.pc = IF e = NoExc THEN "done" ELSE "raised",
                            !.raised = e, !.start = 0, !.latency = 0, !.wake = 0]

Unresolved(t) == t.pc \notin {"done", "raised"}

\* mutant: a linear backoff, 2 * attempt
BackoffLinear(attempt) == 2 * attempt

\* the backoff of the except clause: 2 ** attempt seconds
BackoffSeconds(attempt) == Pow2(attempt)

\* `if attempt < self.retries - 1`: another attempt is allowed
MayRetry(attempt, n) == attempt < n - 1

\* mutant: every failed attempt records an 'error' sample, not only the last
OnExceptionRecordsEach(t0, st, n, clock) ==
    LET t == [t0 EXCEPT !.failures = @ + 1, !.status = 0, !.latency = 0]
        rec == AddResult(st, ErrorKey, clock - t.start)
    IN
    IF MayRetry(t.attempt, n)
    THEN [task |-> [t EXCEPT !.pc = "backoff",
                             !.wake = clock + BackoffSeconds(t.attempt) * hz,
                             !.waits = Append(@, BackoffSeconds(t.attempt))],
          stats |-> rec]
    ELSE [task |-> IF HasErrorSet(rec) THEN Finished(t, NoExc)
                   ELSE Finished(t, "AttributeError"),
          stats |-> rec]

\* the except clause of make_request, for a failure of attempt t.attempt
OnException(t0, st, n, clock) ==
    LET t == [t0 EXCEPT !.failures = @ + 1, !.status = 0, !.latency = 0]
    IN
    IF MayRetry(t.attempt, n)
    THEN \* await asyncio.sleep(2 ** attempt)
         [task |-> [t EXCEPT !.pc = "backoff",
                             !.wake = clock + BackoffSeconds(t.attempt) * hz,
                             !.waits = Append(@, BackoffSeconds(t.attempt))],
          stats |-> st]
    ELSE \* results['error'].append(...), then error_set.add(str(e))
         LET rec == AddResult(st, ErrorKey, clock - t.start)
         IN [task |-> IF HasErrorSet(rec) THEN Finished(t, NoExc)
                      ELSE Finished(t, "AttributeError"),
             stats |-> rec]

\* the task starts: start_time = time.perf_counter(), first session.get
TaskStart(i) ==
    /\ tasks[i].pc = "new"
    /\ tasks' = [tasks EXCEPT ![i] = [@ EXCEPT !.pc = "get", !.start = now,
                                               !.attempts = 1]]
    /\ UNCHANGED statsVars

\* session.get answers with a response: latency is taken, response.text() awaited
TaskResponse(i) ==
    /\ tasks[i].pc = "get"
    /\ \E s \in Statuses :
         tasks' = [tasks EXCEPT ![i] = [@ EXCEPT !.pc = "body", !.status = s,
                                                 !.latency = now - tasks[i].start]]
    /\ UNCHANGED statsVars

\* session.get raises
TaskGetFails(i) ==
    /\ tasks[i].pc = "get"
    /\ LET r == OnException(tasks[i], load_test_stats, retries, now)
       IN /\ tasks' = [tasks EXCEPT ![i] = r.task]
          /\ load_test_stats' = r.stats
          /\ finalized' = (finalized /\ r.stats = load_test_stats)
          /\ calc_calls' = IF r.stats = load_test_stats THEN calc_calls ELSE 0

\* response.text() returns: the sample is recorded under str(response.status)
TaskBodyRead(i) ==
    /\ tasks[i].pc = "body"
    /\ tasks' = [tasks EXCEPT ![i] = Finished(@, NoExc)]
    /\ load_test_stats' = AddResult(load_test_stats, Str(tasks[i].status),
                                    tasks[i].latency)
    /\ finalized' = FALSE
    /\ calc_calls' = 0

\* response.text() raises
TaskBodyFails(i) ==
    /\ tasks[i].pc = "body"
    /\ LET r == OnException(tasks[i], load_test_stats, retries, now)
       IN /\ tasks' = [tasks EXCEPT ![i] = r.task]
          /\ load_test_stats' = r.stats
          /\ finalized' = (finalized /\ r.stats = load_test_stats)
          /\ calc_calls' = IF r.stats = load_test_stats THEN calc_calls ELSE 0

\* the backoff sleep ends: the next iteration of the for loop
TaskRetry(i) ==
    /\ tasks[i].pc = "backoff"
    /\ now >= tasks[i].wake
    /\ tasks' = [tasks EXCEPT ![i] = [@ EXCEPT !.pc = "get", !.attempt = @ + 1,
                                               !.attempts = @ + 1, !.wake = 0]]
    /\ UNCHANGED statsVars


(***************************************************************************)
(* generate_load and run_test.                                             *)
(***************************************************************************)
\* 1 / qps as `next_request_time += interval` adds it: in clock units,
\* rounded to the nearest
Interval(q) == (2 * hz + q) \div (2 * q)

\* mutant: the second test of the clock is left out
InWindowAlways(t, e) == TRUE

\* `if current_time < end_time` guarding create_task
InWindow(t, e) == t < e

\* the tasks the event loop still holds, with their clock readings moved to
\* a clock origin of t (only differences of readings are ever used)
RECURSIVE Rebase(_, _)
Rebase(ts, t) ==
    IF ts = <<>> THEN <<>>
    ELSE (IF Unresolved(Head(ts))
          THEN <<[Head(ts) EXCEPT !.start = @ - t,
                                  !.wake = IF Head(ts).pc = "backoff" THEN @ - t ELSE @]>>
          ELSE <<>>) \o Rebase(Tail(ts), t)

\* run_test(duration, q) up to the first scheduling check of generate_load:
\* a fresh LoadTestStats, `qps or self.qps` (twice), the ValueError, the
\* session, the window and the cursor
CallRunTest(q, from) ==
    LET eff == Or(Or(q, self_qps), self_qps)
    IN /\ run_calls' = Append(run_calls, [qps |-> q, from |-> from])
       /\ now' = 0
       /\ tasks' = Rebase(tasks, now)
       /\ load_test_stats' = NewStats
       /\ finalized' = FALSE
       /\ calc_calls' = 0
       /\ stats_run' = Len(run_calls) + 1
       /\ caller' = from
       /\ qps' = eff
       /\ launched' = 0
       /\ awaited' = {}
       /\ IF eff = None
          THEN /\ exc' = "ValueError"
               /\ pc' = "rt_raise"
               /\ UNCHANGED <<session, start_time, end_time, next_request_time>>
          ELSE IF eff = 0
          THEN \* interval = 1 / qps inside the async with block
               /\ exc' = "ZeroDivisionError"
               /\ pc' = "rt_raise"
               /\ session' = "closed"
               /\ start_time' = 0
               /\ end_time' = args.duration * hz
               /\ UNCHANGED next_request_time
          ELSE /\ exc' = NoExc
               /\ pc' = "gen_while"
               /\ session' = "open"
               /\ start_time' = 0
               /\ end_time' = args.duration * hz
               /\ next_request_time' = 0

\* `while time.time() < end_time`; leaving the loop leaves the async with block
GenWhile ==
    /\ pc = "gen_while"
    /\ IF now < end_time
       THEN pc' = "gen_read" /\ UNCHANGED session
       ELSE pc' = "gen_gather" /\ session' = "closed"
    /\ UNCHANGED <<configVars, statsVars, caller, exc, pacerVars, tasks,
                   searchVars, now, run_calls, stats_run, printed>>

\* the body of the while loop, from `current_time = time.time()` to its sleep
GenRead ==
    /\ pc = "gen_read"
    /\ LET current_time == now
       IN IF current_time >= next_request_time
          THEN /\ IF InWindow(current_time, end_time)
                  THEN /\ tasks' = Append(tasks, NewTask(stats_run))
                       /\ launched' = launched + 1
                       /\ next_request_time' = next_request_time + Interval(qps)
                  ELSE UNCHANGED <<tasks, launched, next_request_time>>
               /\ pc' = "gen_yield"
          ELSE \* asyncio.sleep(next_request_time - current_time)
               /\ pc' = "gen_sleep"
               /\ UNCHANGED <<tasks, launched, next_request_time>>
    /\ UNCHANGED <<configVars, statsVars, session, caller, exc, qps,
                   start_time, end_time, awaited, searchVars, now, run_calls,
                   stats_run, printed>>

\* asyncio.sleep(0) returns: the loop has first run every coroutine that was
\* ready before it, so each task created so far has made its first step
GenYield ==
    /\ pc = "gen_yield"
    /\ \A i \in 1..Len(tasks) : tasks[i].pc # "new"
    /\ pc' = "gen_while"
    /\ UNCHANGED <<configVars, statsVars, session, caller, exc, pacerVars,
                   tasks, searchVars, now, run_calls, stats_run, printed>>

\* asyncio.sleep(next_request_time - current_time) returns, not before the
\* clock has reached next_request_time
GenWake ==
    /\ pc = "gen_sleep"
    /\ now >= next_request_time
    /\ pc' = "gen_while"
    /\ UNCHANGED <<configVars, statsVars, session, caller, exc, pacerVars,
                   tasks, searchVars, now, run_calls, stats_run, printed>>

\* asyncio.all_tasks() - {asyncio.current_task()}: the tasks not yet finished
PendingTasks(ts) == {i \in 1..Len(ts) : Unresolved(ts[i])}

\* asyncio.gather(*...) is called on the unfinished tasks
GenGather ==
    /\ pc = "gen_gather"
    /\ awaited' = PendingTasks(tasks)
    /\ pc' = "gen_await"
    /\ UNCHANGED <<configVars, statsVars, session, caller, exc, qps,
                   start_time, end_time, next_request_time,
                   launched, tasks, searchVars, now, run_calls, stats_run, printed>>

\* gather without return_exceptions: the first exception of an awaited task
\* is raised at once, otherwise gather returns when all of them have returned
GatherRaises(ts, aw) == \E i \in aw : ts[i].pc = "raised"
\* mutant: the gather does not wait
GatherNoWait(ts, aw) == TRUE

GatherReturns(ts, aw) == \A i \in aw : ts[i].pc = "done"

\* generate_load ends; run_test calls calculate_stats (or is left by the exception)
GenAwait ==
    /\ pc = "gen_await"
    /\ \/ /\ GatherRaises(tasks, awaited)
          /\ exc' = "AttributeError"
          /\ pc' = "rt_raise"
          /\ UNCHANGED statsVars
       \/ /\ ~GatherRaises(tasks, awaited)
          /\ GatherReturns(tasks, awaited)
          /\ load_test_stats' = CalculateStats(load_test_stats)
          /\ finalized' = TRUE
          /\ calc_calls' = calc_calls + 1
          /\ pc' = "rt_return"
          /\ UNCHANGED exc
    /\ UNCHANGED <<configVars, session, caller, pacerVars, tasks, searchVars, now,
                   run_calls, stats_run, printed>>

\* the main coroutine is suspended in an await (sleep or gather)
AtAwait == pc \in {"gen_yield", "gen_sleep", "gen_await", "fin_await", "req_await"}

\* a step of one make_request task, while the main coroutine is suspended
TaskStep ==
    /\ AtAwait
    /\ \E i \in 1..Len(tasks) :
         \/ TaskStart(i)
         \/ TaskResponse(i)
         \/ TaskGetFails(i)
         \/ TaskBodyRead(i)
         \/ TaskBodyFails(i)
         \/ TaskRetry(i)
    /\ UNCHANGED <<configVars, session, pc, caller, exc, pacerVars, searchVars,
                   now, run_calls, stats_run, printed>>

\* the clock advances by one unit, as long as something still depends on it
Tick ==
    /\ \/ pc \in {"gen_while", "gen_read", "gen_yield", "gen_sleep"}
       \/ PendingTasks(tasks) # {} /\ AtAwait
    /\ \/ now < end_time + MaxOverrun
       \/ pc = "gen_sleep" /\ now < next_request_time
       \/ \E i \in 1..Len(tasks) : tasks[i].pc = "backoff" /\ now < tasks[i].wake
    /\ now' = now + 1
    /\ UNCHANGED <<configVars, statsVars, session, pc, caller, exc, pacerVars,
                   tasks, searchVars, run_calls, stats_run, printed>>


(***************************************************************************)
(* find_breaking_point, print_results and run.                             *)
(***************************************************************************)
\* mutant: the latency test is strict, mean_latency < max_latency
AcceptableStrict(er, ml, max_er, max_l) == RatLeq(er, max_er) /\ ~RatLeq(max_l, ml)

\* `if error_rate <= max_error_rate and mean_latency <= max_latency`
Acceptable(er, ml, max_er, max_l) == RatLeq(er, max_er) /\ RatLeq(ml, max_l)

\* mutant: the lowest candidate is tested next, a linear scan
MidpointLow(l, h) == l

\* (low + high) // 2
Midpoint(l, h) == (l + h) \div 2

\* mutant: the final test is run whatever best_qps is
RunsFinalTestAlways(best) == best >= 0

\* `if best_qps > 0`: the final test is run
RunsFinalTest(best) == best > 0

\* run(): find_breaking_point starts (low, high = 1, max_qps; best_qps = 0),
\* or the single run_test(args.duration) is called
RunStart ==
    /\ pc = "run"
    /\ IF args.find_breaking_point
       THEN /\ low' = 1
            /\ high' = args.max_qps
            /\ best_qps' = 0
            /\ verdicts' = {}
            /\ pc' = "fbp_while"
            /\ UNCHANGED <<statsVars, session, caller, exc, pacerVars, tasks,
                           mid, now, run_calls, stats_run>>
       ELSE /\ CallRunTest(None, "single")
            /\ UNCHANGED searchVars
    /\ UNCHANGED <<configVars, printed>>

\* `while low <= high`: mid is tested, or the loop ends and the final test
\* is run when best_qps > 0
FbpWhile ==
    /\ pc = "fbp_while"
    /\ IF low <= high
       THEN /\ mid' = Midpoint(low, high)
            /\ CallRunTest(Midpoint(low, high), "loop")
       ELSE IF RunsFinalTest(best_qps)
       THEN /\ CallRunTest(best_qps, "final")
            /\ UNCHANGED mid
       ELSE /\ pc' = "print"
            /\ UNCHANGED <<statsVars, session, caller, exc, pacerVars, tasks,
                           mid, now, run_calls, stats_run>>
    /\ UNCHANGED <<configVars, low, high, best_qps, verdicts, printed>>

\* mutant: a rejected rate stays in the range, high = mid
SearchUpdateKeepsMid(m, er, ml) ==
    IF Acceptable(er, ml, args.max_error_rate, args.max_latency)
    THEN /\ best_qps' = m
         /\ low' = m + 1
         /\ verdicts' = verdicts \cup {[qps |-> m, accepted |-> TRUE]}
         /\ UNCHANGED high
    ELSE /\ high' = m
         /\ verdicts' = verdicts \cup {[qps |-> m, accepted |-> FALSE]}
         /\ UNCHANGED <<low, best_qps>>

\* mutant: an accepted rate stays in the range, low = mid
SearchUpdateLowMid(m, er, ml) ==
    IF Acceptable(er, ml, args.max_error_rate, args.max_latency)
    THEN /\ best_qps' = m
         /\ low' = m
         /\ verdicts' = verdicts \cup {[qps |-> m, accepted |-> TRUE]}
         /\ UNCHANGED high
    ELSE /\ high' = m - 1
         /\ verdicts' = verdicts \cup {[qps |-> m, accepted |-> FALSE]}
         /\ UNCHANGED <<low, best_qps>>

\* the if statement of the search loop, on the result of the run at rate m
SearchUpdate(m, er, ml) ==
    IF Acceptable(er, ml, args.max_error_rate, args.max_latency)
    THEN /\ best_qps' = m
         /\ low' = m + 1
         /\ verdicts' = verdicts \cup {[qps |-> m, accepted |-> TRUE]}
         /\ UNCHANGED high
    ELSE /\ high' = m - 1
         /\ verdicts' = verdicts \cup {[qps |-> m, accepted |-> FALSE]}
         /\ UNCHANGED <<low, best_qps>>

\* run_test returns (error_rate, mean_latency) to its caller; in the loop of
\* find_breaking_point the candidate is accepted or rejected
RunTestReturn ==
    /\ pc = "rt_return"
    /\ IF caller = "loop"
       THEN /\ SearchUpdate(mid, load_test_stats.error_rate,
                            load_test_stats.mean_latency)
            /\ pc' = "fbp_while"
       ELSE /\ pc' = "print"
            /\ UNCHANGED <<low, high, best_qps, verdicts>>
    /\ UNCHANGED <<configVars, statsVars, session, caller, exc, pacerVars,
                   tasks, mid, now, run_calls, stats_run, printed>>

\* print_results, then the finally clause of run()
PrintResults ==
    /\ pc = "print"
    /\ printed' = Append(printed, [run |-> stats_run, finalized |-> finalized,
                                   total_requests |-> load_test_stats.total_requests])
    /\ pc' = "finally"
    /\ UNCHANGED <<configVars, statsVars, session, caller, exc, pacerVars,
                   tasks, searchVars, now, run_calls, stats_run>>

\* an exception leaves run_test, find_breaking_point and the try block of run()
RunTestRaise ==
    /\ pc = "rt_raise"
    /\ pc' = "finally"
    /\ UNCHANGED <<configVars, statsVars, session, caller, exc, pacerVars,
                   tasks, searchVars, now, run_calls, stats_run, printed>>

\* finally: gather(*tasks, return_exceptions=True) is called
RunFinally ==
    /\ pc = "finally"
    /\ awaited' = PendingTasks(tasks)
    /\ pc' = "fin_await"
    /\ UNCHANGED <<configVars, statsVars, session, caller, exc, qps,
                   start_time, end_time, next_request_time,
                   launched, tasks, searchVars, now, run_calls, stats_run, printed>>

\* the gather of the finally clause returns; run() returns or re-raises
RunEnd ==
    /\ pc = "fin_await"
    /\ \A i \in awaited : ~Unresolved(tasks[i])
    /\ pc' = IF exc = NoExc THEN "returned" ELSE "raised"
    /\ UNCHANGED <<configVars, statsVars, session, caller, exc, pacerVars,
                   tasks, searchVars, now, run_calls, stats_run, printed>>

(***************************************************************************)
(* The program: HTTPLoadTester(url, qps, verbose, retries).run(args).      *)
(***************************************************************************)
\* the defaults of --max-error-rate (0.01) and --max-latency (0.5 second)
DefaultMaxErrorRate == Rat(1, 100)
DefaultMaxLatency == Rat(1, 2)

\* a rational number of seconds, in clock units
InUnits(r) == Rat(r.num * hz, r.den)

\* what every specification starts from, the configuration apart
InitRest ==
    /\ load_test_stats = NewStats
    /\ finalized = FALSE
    /\ calc_calls = 0
    /\ session = "none"
    /\ caller = "none"
    /\ exc = NoExc
    /\ qps = None
    /\ start_time = 0
    /\ end_time = 0
    /\ next_request_time = 0
    /\ awaited = {}
    /\ low = 0
    /\ high = 0
    /\ best_qps = 0
    /\ mid = 0
    /\ now = 0
    /\ run_calls = <<>>
    /\ stats_run = 0
    /\ launched = 0
    /\ printed = <<>>
    /\ verdicts = {}

\* HTTPLoadTester(url, qps, verbose, retries).run(args): a single run at
\* self.qps (which the constructor may leave None), or the search
Init ==
    /\ hz = Hz
    /\ retries \in 1..MaxRetries
    /\ \E fbp \in BOOLEAN, d \in 1..MaxDuration, mq \in 1..MaxQps :
         /\ args = [find_breaking_point |-> fbp, duration |-> d, max_qps |-> mq,
                    max_error_rate |-> DefaultMaxErrorRate,
                    max_latency |-> InUnits(DefaultMaxLatency)]
         /\ (~fbp => mq = 1)
         /\ self_qps \in IF fbp THEN {1} ELSE {None} \cup 0..MaxQps
    /\ threshold = None
    /\ tasks = <<>>
    /\ pc = "run"
    /\ InitRest

Next ==
    \/ RunStart
    \/ FbpWhile
    \/ GenWhile
    \/ GenRead
    \/ GenYield
    \/ GenWake
    \/ GenGather
    \/ GenAwait
    \/ RunTestReturn
    \/ RunTestRaise
    \/ PrintResults
    \/ RunFinally
    \/ RunEnd
    \/ TaskStep
    \/ Tick

Spec == Init /\ [][Next]_vars


(***************************************************************************)
(* find_breaking_point over a synthetic run_test, as the unit test drives  *)
(* it: run_test is replaced by a function that answers each call with a    *)
(* result pair, acceptable up to the rate `threshold` and unacceptable     *)
(* above it, or with any pair when threshold is None.                      *)
(***************************************************************************)
\* the (error_rate, mean_latency) pairs of the test's mock_results, in seconds
MockResults ==
    { <<Rat(5, 1000), Rat(1, 10)>>,  <<Rat(10, 1000), Rat(3, 10)>>,
      <<Rat(8, 1000), Rat(5, 10)>>,  <<Rat(15, 1000), Rat(3, 10)>>,
      <<Rat(8, 1000), Rat(6, 10)>>,  <<Rat(20, 1000), Rat(7, 10)>> }

\* a result within both limits
WithinLimits(r) == RatLeq(r[1], args.max_error_rate) /\ RatLeq(r[2], args.max_latency)

\* the results the synthetic run_test may answer a call at rate q with
MockRunTest(q) ==
    IF threshold = None THEN MockResults
    ELSE {r \in MockResults : WithinLimits(r) <=> q <= threshold}

\* one iteration of the search loop, run_test answering at once
MockLoop ==
    /\ pc = "fbp_while"
    /\ low <= high
    /\ mid' = Midpoint(low, high)
    /\ run_calls' = Append(run_calls, [qps |-> Midpoint(low, high), from |-> "loop"])
    /\ \E r \in MockRunTest(Midpoint(low, high)) :
         SearchUpdate(Midpoint(low, high), r[1], r[2])
    /\ UNCHANGED <<configVars, statsVars, session, pc, caller, exc, pacerVars,
                   tasks, now, stats_run, printed>>

\* the loop has ended: the final run_test when best_qps > 0, then print_results
MockFinal ==
    /\ pc = "fbp_while"
    /\ low > high
    /\ run_calls' = IF RunsFinalTest(best_qps)
                    THEN Append(run_calls, [qps |-> best_qps, from |-> "final"])
                    ELSE run_calls
    /\ pc' = "print"
    /\ UNCHANGED <<configVars, statsVars, session, caller, exc, pacerVars,
                   tasks, searchVars, now, stats_run, printed>>

InitSearch ==
    /\ hz = Hz
    /\ retries = 5
    /\ self_qps = 10
    /\ \E mq \in 1..MaxSearchQps :
         /\ args = [find_breaking_point |-> TRUE, duration |-> 5, max_qps |-> mq,
                    max_error_rate |-> DefaultMaxErrorRate,
                    max_latency |-> DefaultMaxLatency]
         /\ threshold \in {None} \cup 0..mq
    /\ tasks = <<>>
    /\ pc = "run"
    /\ InitRest

NextSearch ==
    \/ RunStart
    \/ MockLoop
    \/ MockFinal
    \/ PrintResults
    \/ RunFinally
    \/ RunEnd

SpecSearch == InitSearch /\ [][NextSearch]_vars

\* the same, every run_test call returning and the coroutine being resumed
SpecSearchFair == InitSearch /\ [][NextSearch]_vars /\ WF_vars(NextSearch)

(***************************************************************************)
(* A single run at a clock resolution of 1/PacerHz second, against a       *)
(* transport that answers or fails each request before the clock moves on. *)
(***************************************************************************)
\* the clock advances by one unit; no request is in flight
PacerTick ==
    /\ PendingTasks(tasks) = {}
    /\ Tick

InitPacer ==
    /\ hz = PacerHz
    /\ retries = 1
    /\ self_qps \in 1..MaxPacerQps
    /\ args = [find_breaking_point |-> FALSE, duration |-> 1, max_qps |-> 1,
               max_error_rate |-> DefaultMaxErrorRate,
               max_latency |-> InUnits(DefaultMaxLatency)]
    /\ threshold = None
    /\ tasks = <<>>
    /\ pc = "run"
    /\ InitRest

NextPacer ==
    \/ RunStart
    \/ GenWhile
    \/ GenRead
    \/ GenYield
    \/ GenWake
    \/ GenGather
    \/ GenAwait
    \/ RunTestReturn
    \/ PrintResults
    \/ RunFinally
    \/ RunEnd
    \/ TaskStep
    \/ PacerTick

SpecPacer == InitPacer /\ [][NextPacer]_vars

(***************************************************************************)
(* run_test called several times on one HTTPLoadTester by a client that    *)
(* goes on after a call has returned or raised.                            *)
(***************************************************************************)
\* the client awaits run_test(duration, q), the first time or once more
RunsCall ==
    /\ pc \in {"idle", "rt_return", "rt_raise"}
    /\ Len(run_calls) < MaxRuns
    /\ \E q \in 1..MaxQps : CallRunTest(q, "api")
    /\ UNCHANGED <<configVars, searchVars, printed>>

InitRuns ==
    /\ hz = Hz
    /\ retries = 1
    /\ self_qps = None
    /\ \E d \in 1..MaxDuration :
         args = [find_breaking_point |-> FALSE, duration |-> d, max_qps |-> 1,
                 max_error_rate |-> DefaultMaxErrorRate,
                 max_latency |-> InUnits(DefaultMaxLatency)]
    /\ threshold = None
    /\ tasks = <<>>
    /\ pc = "idle"
    /\ InitRest

NextRuns ==
    \/ RunsCall
    \/ GenWhile
    \/ GenRead
    \/ GenYield
    \/ GenWake
    \/ GenGather
    \/ GenAwait
    \/ TaskStep
    \/ Tick

SpecRuns == InitRuns /\ [][NextRuns]_vars

(***************************************************************************)
(* make_request awaited on its own, as the unit tests call it.             *)
(***************************************************************************)
\* `await self.tester.make_request(mock_session)` ends
RequestEnd ==
    /\ pc = "req_await"
    /\ ~Unresolved(tasks[1])
    /\ exc' = tasks[1].raised
    /\ pc' = IF tasks[1].raised = NoExc THEN "returned" ELSE "raised"
    /\ UNCHANGED <<configVars, statsVars, session, caller, pacerVars, tasks,
                   searchVars, now, run_calls, stats_run, printed>>

InitRequest ==
    /\ hz = Hz
    /\ retries \in 1..MaxRequestRetries
    /\ self_qps = 10
    /\ args = [find_breaking_point |-> FALSE, duration |-> 1, max_qps |-> 1,
               max_error_rate |-> DefaultMaxErrorRate,
               max_latency |-> InUnits(DefaultMaxLatency)]
    /\ threshold = None
    /\ tasks = <<NewTask(0)>>
    /\ pc = "req_await"
    /\ InitRest

NextRequest ==
    \/ TaskStep
    \/ Tick
    \/ RequestEnd

SpecRequest == InitRequest /\ [][NextRequest]_vars

(***************************************************************************)
(* LoadTestStats on its own: add_result and calculate_stats in any order.  *)
(***************************************************************************)
\* the classifications of the samples: status codes and 'error'
StatKeys == {Str(200), Str(301), Str(404), Str(500), ErrorKey}

\* the samples the unit test of calculate_stats assigns, in tenths of a second
TestResults == (Str(200) :> <<1, 2, 3>>) @@ (Str(404) :> <<4, 5>>) @@ (ErrorKey :> <<6>>)

NumSamples(st) == Len(AllLatencies(st.results, KeySeq(DOMAIN st.results)))

\* LoadTestStats.add_result
StatsAddResult ==
    /\ pc = "stats"
    /\ NumSamples(load_test_stats) < MaxSamples
    /\ \E k \in StatKeys, l \in 1..MaxLatencyValue :
         load_test_stats' = AddResult(load_test_stats, k, l)
    /\ finalized' = FALSE
    /\ calc_calls' = 0
    /\ UNCHANGED <<configVars, session, pc, caller, exc, pacerVars, tasks,
                   searchVars, now, run_calls, stats_run, printed>>

\* LoadTestStats.calculate_stats
StatsCalculate ==
    /\ pc = "stats"
    /\ calc_calls < MaxCalculations
    /\ load_test_stats' = CalculateStats(load_test_stats)
    /\ finalized' = TRUE
    /\ calc_calls' = calc_calls + 1
    /\ UNCHANGED <<configVars, session, pc, caller, exc, pacerVars, tasks,
                   searchVars, now, run_calls, stats_run, printed>>

InitStats ==
    /\ hz = Hz
    /\ retries = 5
    /\ self_qps = 10
    /\ args = [find_breaking_point |-> FALSE, duration |-> 1, max_qps |-> 1,
               max_error_rate |-> DefaultMaxErrorRate,
               max_latency |-> InUnits(DefaultMaxLatency)]
    /\ threshold = None
    /\ tasks = <<>>
    /\ pc = "stats"
    /\ load_test_stats \in
         {NewStats, [NewStats EXCEPT !.results = TestResults]}
         \cup {[NewStats EXCEPT !.results = (k :> <<>>)] : k \in StatKeys}
    /\ finalized = FALSE
    /\ calc_calls = 0
    /\ session = "none"
    /\ caller = "none"
    /\ exc = NoExc
    /\ qps = None
    /\ start_time = 0
    /\ end_time = 0
    /\ next_request_time = 0
    /\ awaited = {}
    /\ low = 0
    /\ high = 0
    /\ best_qps = 0
    /\ mid = 0
    /\ now = 0
    /\ run_calls = <<>>
    /\ stats_run = 0
    /\ launched = 0
    /\ printed = <<>>
    /\ verdicts = {}

NextStats ==
    \/ StatsAddResult
    \/ StatsCalculate

SpecStats == InitStats /\ [][NextStats]_vars


(***************************************************************************)
(* Properties.                                                             *)
(***************************************************************************)
RECURSIVE FloorLog2(_)
FloorLog2(n) == IF n <= 1 THEN 0 ELSE 1 + FloorLog2(n \div 2)

CeilLog2(n) == IF n <= 1 THEN 0 ELSE FloorLog2(n - 1) + 1

\* the search loop of find_breaking_point has ended
LoopEnded == args.find_breaking_point /\ low > high

\* the run_test calls made after the search loop
FinalCalls == {i \in 1..Len(run_calls) : run_calls[i].from = "final"}

\* C1: with a run function that is acceptable exactly for the rates up to a
\* threshold T in 0..max_qps, the search ends with best_qps = T, the value
\* find_breaking_point returns (0 when no rate is acceptable, max_qps when
\* all are, 91 for max_qps = 100 and T = 91).
C1_SearchReturnsThreshold ==
    (LoopEnded /\ threshold # None) => best_qps = threshold

C1_Witness ==
    /\ pc = "returned"
    /\ args.max_qps = 100
    /\ threshold = 91
    /\ best_qps = 91

\* C2: make_request never propagates an exception to its caller, whatever
\* the transport does: no call ends raised.
C2_NeverRaises ==
    /\ \A i \in 1..Len(tasks) : tasks[i].pc # "raised"
    /\ exc = NoExc

\* C3: request failures never abort the search: no exception leaves run_test
\* during find_breaking_point, and a run whose requests all exhausted their
\* retries returns error_rate = 1 and is rejected (high = mid - 1).
C3_SearchNeverAborts ==
    args.find_breaking_point =>
        /\ exc = NoExc
        /\ pc # "rt_raise"
        /\ (pc = "rt_return" /\ launched > 0
              /\ DOMAIN load_test_stats.results = {ErrorKey})
            => /\ RatEq(load_test_stats.error_rate, Rat(1, 1))
               /\ ~Acceptable(load_test_stats.error_rate, load_test_stats.mean_latency,
                              args.max_error_rate, args.max_latency)

\* the backoff waits of a call that failed k times and went on: 2^0 .. 2^(k-1)
ExpectedWaits(k) == [i \in 1..k |-> Pow2(i - 1)]

\* C4: a make_request call with retries = N that never gets a response makes
\* exactly N attempts and records its sample under 'error', with N - 1
\* backoff waits (none after the last attempt); one that fails K < N times
\* and then succeeds makes K + 1 attempts, records its sample under the
\* status code, and waits K times, 2^0, 2^1, ..., 2^(K-1) seconds in order.
C4_RetryDiscipline ==
    LET t == tasks[1]
        res == load_test_stats.results
    IN /\ t.waits = ExpectedWaits(Len(t.waits))
       /\ ~Unresolved(t) =>
            IF t.status = 0
            THEN /\ t.failures = retries
                 /\ t.attempts = retries
                 /\ t.waits = ExpectedWaits(retries - 1)
                 /\ DOMAIN res = {ErrorKey}
                 /\ Len(res[ErrorKey]) = 1
            ELSE /\ t.failures < retries
                 /\ t.attempts = t.failures + 1
                 /\ t.waits = ExpectedWaits(t.failures)
                 /\ DOMAIN res = {Str(t.status)}
                 /\ Len(res[Str(t.status)]) = 1

C4_Witness ==
    /\ tasks[1].pc = "done"
    /\ tasks[1].status = 200
    /\ tasks[1].failures = 2
    /\ tasks[1].waits = <<1, 2>>
    /\ Str(200) \in DOMAIN load_test_stats.results

\* C5: one generate_load call at rate R for D seconds launches D * R
\* requests, within one.
C5_LaunchCount ==
    pc \in {"gen_gather", "gen_await", "rt_return"} =>
        /\ launched >= args.duration * qps - 1
        /\ launched <= args.duration * qps + 1

\* C6: the session is not closed while a request the run launched is
\* unresolved.
C6_SessionOutlivesRequests ==
    session = "closed" => PendingTasks(tasks) = {}

\* C7: calculate_stats runs only once every request launched by the run has
\* resolved, and the finalized total_requests is the number launched.
C7_JoinBarrier ==
    (finalized /\ pc # "stats") =>
        /\ PendingTasks(tasks) = {}
        /\ Len(tasks) = launched
        /\ load_test_stats.total_requests = launched

C7_Witness ==
    /\ finalized
    /\ pc = "rt_return"
    /\ launched = 2
    /\ load_test_stats.total_requests = 2
    /\ \E i \in 1..Len(tasks) : tasks[i].pc = "raised"
    /\ \E i \in 1..Len(tasks) : tasks[i].failures > 0 /\ tasks[i].status # 0

C9_CeilLogBound ==
    Len(run_calls) <= CeilLog2(args.max_qps) + 1

\* C9, amended: the loop makes at most floor(log2(max_qps)) + 1 run_test
\* calls and the whole call, with the final run, at most
\* floor(log2(max_qps)) + 2.
C9_FloorLogBound ==
    /\ Len(run_calls) <= FloorLog2(args.max_qps) + 2
    /\ FinalCalls = {} => Len(run_calls) <= FloorLog2(args.max_qps) + 1

C9_Witness ==
    /\ pc = "returned"
    /\ Len(run_calls) = FloorLog2(args.max_qps) + 2
    /\ Len(run_calls) > CeilLog2(args.max_qps) + 1

\* the samples of the given buckets, one element per sample
SampleSlots(res, keys) == UNION {{<<k, i>> : i \in 1..Len(res[k])} : k \in keys}

\* the buckets whose key starts with '4' or '5' or is 'error'
ErrorBuckets(res) == {k \in DOMAIN res : k[1] \in {"4", "5"} \/ k = ErrorKey}

\* C10: calculate_stats yields total_requests = the sum of the bucket sizes,
\* status_distribution = the bucket sizes, total_errors = the sizes of the
\* buckets '4..', '5..' and 'error', error_rate = total_errors /
\* total_requests, 0 without samples, and then -1 for mean, median, min, max.
C10_CalculateStats ==
    finalized =>
        LET st == load_test_stats
            n == Cardinality(SampleSlots(st.results, DOMAIN st.results))
            e == Cardinality(SampleSlots(st.results, ErrorBuckets(st.results)))
        IN /\ st.total_requests = n
           /\ st.total_errors = e
           /\ DOMAIN st.status_distribution = DOMAIN st.results
           /\ \A k \in DOMAIN st.results : st.status_distribution[k] = Len(st.results[k])
           /\ n > 0 => st.error_rate.den > 0 /\ st.error_rate.num * n = e * st.error_rate.den
           /\ n = 0 => /\ st.error_rate = Rat(0, 1)
                       /\ st.mean_latency = Sentinel
                       /\ st.median_latency = Sentinel
                       /\ st.min_latency = Sentinel
                       /\ st.max_latency = Sentinel

C10_Witness ==
    /\ finalized
    /\ load_test_stats.results = TestResults
    /\ load_test_stats.total_requests = 6
    /\ load_test_stats.total_errors = 3
    /\ RatEq(load_test_stats.error_rate, Rat(1, 2))
    /\ RatEq(load_test_stats.mean_latency, Rat(35, 10))
    /\ RatEq(load_test_stats.median_latency, Rat(35, 10))
    /\ load_test_stats.min_latency = Rat(1, 1)
    /\ load_test_stats.max_latency = Rat(6, 1)

\* C11: calculate_stats leaves the samples unchanged, its result is a
\* function of the samples alone (that of a fresh LoadTestStats holding the
\* same samples), and a second call with no add_result in between changes
\* no field.
C11_CalculateIdempotent ==
    [][calc_calls' > calc_calls =>
         /\ load_test_stats'.results = load_test_stats.results
         /\ load_test_stats' =
              CalculateStats([NewStats EXCEPT !.results = load_test_stats.results])
         /\ (calc_calls >= 1 => load_test_stats' = load_test_stats)]_vars

C11_Witness ==
    /\ calc_calls = 2
    /\ load_test_stats.results = TestResults
    /\ load_test_stats.total_requests = 6
    /\ load_test_stats.total_errors = 3
    /\ RatEq(load_test_stats.median_latency, Rat(7, 2))

\* C12: a run_test call whose rate is 0 or unset fails with the ValueError
\* of generate_load before the session is opened and before any request is
\* launched; no other fault results from such a rate.
C12_RateErrorBeforeSession ==
    (run_calls # <<>> /\ qps \in {None, 0}) =>
        /\ exc = "ValueError"
        /\ session = "none"
        /\ launched = 0
        /\ tasks = <<>>

\* the requests launched by the run that created load_test_stats and resolved
OwnResolved == {i \in 1..Len(tasks) : ~Unresolved(tasks[i]) /\ tasks[i].run = stats_run}

\* C13: every sample in a run's LoadTestStats was recorded by a request that
\* run launched: the stats hold one sample per resolved request of the run
\* and none of a request launched by an earlier run.
C13_NoCrossRunLeak ==
    NumSamples(load_test_stats) = Cardinality(OwnResolved)

\* C14: a make_request call records nothing before it ends and exactly one
\* sample when it ends, whatever the number of attempts: after a response,
\* in the bucket of the stringified status code, and no 'error' bucket
\* exists; after the last attempt failed, in the 'error' bucket alone.
C14_OneSamplePerCall ==
    LET t == tasks[1]
        res == load_test_stats.results
    IN IF Unresolved(t)
       THEN res = <<>>
       ELSE /\ NumSamples(load_test_stats) = 1
            /\ t.status # 0 => /\ Str(t.status) \in DOMAIN res
                               /\ ErrorKey \notin DOMAIN res
            /\ t.status = 0 => DOMAIN res = {ErrorKey}

C14_Witness ==
    /\ ~Unresolved(tasks[1])
    /\ tasks[1].status = 503
    /\ tasks[1].attempts = 2
    /\ DOMAIN load_test_stats.results = {Str(503)}
    /\ NumSamples(load_test_stats) = 1

\* C15: every launch of generate_load happens at a clock reading inside the
\* window, start_time <= current_time < end_time, however late the loop
\* gets to read the clock.
C15_LaunchInsideWindow ==
    [][(launched' > launched \/ Len(tasks') > Len(tasks)) =>
         /\ pc = "gen_read"
         /\ start_time <= now
         /\ now < end_time
         /\ end_time = start_time + args.duration * hz]_vars

\* the loop passed its `while` test, the clock then reached the end of the
\* window with a tick of the schedule still due
C15_Witness ==
    /\ pc = "gen_read"
    /\ now >= end_time
    /\ next_request_time < end_time
    /\ launched >= 1

\* C16: in every state of generate_load the cursor is start_time + k / rate,
\* k being the number of requests launched so far, and it is not later than
\* end_time.
C16_CursorInvariant ==
    pc \in {"gen_while", "gen_read", "gen_yield", "gen_sleep", "gen_gather", "gen_await"} =>
        /\ (next_request_time - start_time) * qps = launched * hz
        /\ next_request_time <= end_time

\* the second half of C16 alone: the cursor is never later than end_time
C16_CursorWithinWindow ==
    pc \in {"gen_while", "gen_read", "gen_yield", "gen_sleep", "gen_gather", "gen_await"} =>
        next_request_time <= end_time

\* C17: the latency recorded for a response is measured once the body has
\* been read: the sample is the clock at the end of response.text() minus
\* the start of the first attempt.
C17_LatencyAfterBody ==
    [][\A i \in 1..Len(tasks) :
         (i <= Len(tasks') /\ tasks[i].pc = "body" /\ tasks'[i].pc = "done") =>
             LET bucket == load_test_stats'.results[Str(tasks[i].status)]
             IN bucket[Len(bucket)] = now - tasks[i].start]_vars

\* C18: whatever the runs answer, every run_test call returning, the search
\* loop ends (low > high is reached), each iteration making high - low
\* strictly smaller.
C18_SearchTerminates ==
    /\ <>LoopEnded
    /\ [][(low <= high /\ run_calls' # run_calls) => high' - low' < high - low]_vars

C18_Witness ==
    /\ LoopEnded
    /\ pc = "returned"
    /\ threshold = None
    /\ args.max_qps = MaxSearchQps
    /\ Cardinality(verdicts) = FloorLog2(MaxSearchQps) + 1
    /\ \E v \in verdicts : v.accepted
    /\ \E v \in verdicts : ~v.accepted

\* C19: whatever the runs answer, from the first loop head on best_qps =
\* low - 1 and 0 <= best_qps <= high <= max_qps or low > high; best_qps is in
\* 0..max_qps and is 0 or a rate tested and accepted; once the loop has
\* ended it is max_qps or the rate above it was tested and rejected; and
\* best_qps never decreases.
C19_SearchInvariant ==
    /\ []((args.find_breaking_point /\ pc # "run") =>
            /\ best_qps = low - 1
            /\ (0 <= best_qps /\ best_qps <= high /\ high <= args.max_qps) \/ low > high
            /\ best_qps \in 0..args.max_qps
            /\ best_qps = 0 \/ [qps |-> best_qps, accepted |-> TRUE] \in verdicts
            /\ LoopEnded => \/ best_qps = args.max_qps
                            \/ [qps |-> best_qps + 1, accepted |-> FALSE] \in verdicts)
    /\ [][best_qps' >= best_qps]_vars

C19_Witness ==
    /\ pc = "returned"
    /\ threshold = None
    /\ args.max_qps = MaxSearchQps
    /\ best_qps > 0
    /\ best_qps < args.max_qps
    /\ [qps |-> best_qps, accepted |-> TRUE] \in verdicts
    /\ [qps |-> best_qps + 1, accepted |-> FALSE] \in verdicts

\* C20: a run whose finalized stats hold no sample (error_rate 0,
\* mean_latency the -1 sentinel) is never accepted: after such a run the
\* search has not made its rate the best.
C20_NoSampleNeverAccepted ==
    (/\ args.find_breaking_point
     /\ pc = "fbp_while"
     /\ caller = "loop"
     /\ finalized
     /\ load_test_stats.total_requests = 0
     /\ load_test_stats.mean_latency = Sentinel) => best_qps # mid

=============================================================================
